---- MODULE Spec2Model ----
(***************************************************************************)
(* Model of the upload route of pdf-extraction                             *)
(* (src/src/app/api/upload/route.ts): the POST handler and the table       *)
(* extraction extractTableData, with the heuristic text paths (PDF text    *)
(* and plain text) modelled character by character.                        *)
(*                                                                         *)
(* A JavaScript string is a sequence of one-character strings; an array is *)
(* a sequence; an object (Record<string,string>) is a sequence of          *)
(* <<key, value>> pairs in the order Object.keys lists them.               *)
(***************************************************************************)
EXTENDS Integers, Sequences, FiniteSets

\* ---------------------------------------------------------------- strings

SP == " "
TB == "\t"
NL == "\n"
CM == ","
SC == ";"

\* The characters JavaScript's \s and String.prototype.trim treat as white
\* space, among the characters the inputs are drawn from.
WhiteSpace == {SP, TB, NL}

IsWs(c) == c \in WhiteSpace

\* s.trim() !== ''
NonBlank(s) == \E i \in 1..Len(s) : ~IsWs(s[i])

\* s.trim()
Trim(s) ==
    IF ~NonBlank(s) THEN <<>>
    ELSE LET first == CHOOSE i \in 1..Len(s) :
                          ~IsWs(s[i]) /\ \A j \in 1..(i-1) : IsWs(s[j])
             last  == CHOOSE i \in 1..Len(s) :
                          ~IsWs(s[i]) /\ \A j \in (i+1)..Len(s) : IsWs(s[j])
         IN SubSeq(s, first, last)

\* s.includes(sub)
Includes(s, sub) ==
    \E i \in 0..Len(s) :
        /\ i + Len(sub) <= Len(s)
        /\ \A j \in 1..Len(sub) : s[i + j] = sub[j]

\* s.split(c) for a one-character separator c: never an empty array, the
\* empty string gives [''].
RECURSIVE SplitFrom(_, _, _, _, _)
SplitFrom(s, c, i, cur, acc) ==
    IF i > Len(s) THEN Append(acc, cur)
    ELSE IF s[i] = c THEN SplitFrom(s, c, i + 1, <<>>, Append(acc, cur))
    ELSE SplitFrom(s, c, i + 1, Append(cur, s[i]), acc)

SplitChar(s, c) == SplitFrom(s, c, 1, <<>>, <<>>)

\* The length of the white-space run of s that starts at position i.
RECURSIVE RunLen(_, _)
RunLen(s, i) ==
    IF i > Len(s) \/ ~IsWs(s[i]) THEN 0 ELSE 1 + RunLen(s, i + 1)

\* s.split(/\s{k,}/): the regular expression is greedy, so a run of at least
\* k white-space characters is one separator and a shorter run stays in its
\* token. k = 2 is /\s{2,}/, k = 1 is /\s+/.
RECURSIVE SplitRunsFrom(_, _, _, _, _)
SplitRunsFrom(s, k, i, cur, acc) ==
    IF i > Len(s) THEN Append(acc, cur)
    ELSE IF IsWs(s[i]) /\ RunLen(s, i) >= k
         THEN SplitRunsFrom(s, k, i + RunLen(s, i), <<>>, Append(acc, cur))
    ELSE SplitRunsFrom(s, k, i + 1, Append(cur, s[i]), acc)

SplitRuns(s, k) == SplitRunsFrom(s, k, 1, <<>>, <<>>)

\* arr.map(f)
MapTrim(arr) == [i \in 1..Len(arr) |-> Trim(arr[i])]

\* arr.filter(h => h !== '') and arr.filter(h => h.trim() !== '')
RECURSIVE FilterNonEmpty(_)
FilterNonEmpty(arr) ==
    IF arr = <<>> THEN <<>>
    ELSE IF Head(arr) # <<>> THEN <<Head(arr)>> \o FilterNonEmpty(Tail(arr))
    ELSE FilterNonEmpty(Tail(arr))

RECURSIVE FilterNonBlank(_)
FilterNonBlank(arr) ==
    IF arr = <<>> THEN <<>>
    ELSE IF NonBlank(Head(arr)) THEN <<Head(arr)>> \o FilterNonBlank(Tail(arr))
    ELSE FilterNonBlank(Tail(arr))

\* lines.join('\n'): how a text is made of its lines.
RECURSIVE JoinLines(_)
JoinLines(ls) ==
    IF ls = <<>> THEN <<>>
    ELSE IF Len(ls) = 1 THEN ls[1]
    ELSE ls[1] \o <<NL>> \o JoinLines(Tail(ls))

\* ---------------------------------------------------------------- objects

Digits == {"0", "1", "2", "3", "4", "5", "6", "7", "8", "9"}

RECURSIVE DigitsValue(_)
DigitsValue(k) ==
    IF k = <<>> THEN 0
    ELSE 10 * DigitsValue(SubSeq(k, 1, Len(k) - 1))
         + (CHOOSE d \in 0..9 :
               <<"0", "1", "2", "3", "4", "5", "6", "7", "8", "9">>[d + 1] = k[Len(k)])

\* A property name that is an array index ("0", "7", "12", not "07"): an
\* object lists these first, in ascending numeric order, whenever they were
\* set; the other names follow in the order they were first set.
IsIndexKey(k) ==
    /\ k # <<>>
    /\ \A i \in 1..Len(k) : k[i] \in Digits
    /\ (Len(k) = 1 \/ k[1] # "0")

ObjKeys(o) == [i \in 1..Len(o) |-> o[i][1]]

ObjHas(o, k) == \E i \in 1..Len(o) : o[i][1] = k

\* The position a new key takes in the object's key order.
InsertAt(o, k) ==
    IF IsIndexKey(k)
    THEN 1 + Cardinality({i \in 1..Len(o) :
                 IsIndexKey(o[i][1]) /\ DigitsValue(o[i][1]) < DigitsValue(k)})
    ELSE Len(o) + 1

\* o[k] = v
ObjSet(o, k, v) ==
    IF ObjHas(o, k)
    THEN [i \in 1..Len(o) |-> IF o[i][1] = k THEN <<k, v>> ELSE o[i]]
    ELSE LET p == InsertAt(o, k)
         IN SubSeq(o, 1, p - 1) \o << <<k, v>> >> \o SubSeq(o, p, Len(o))

\* The object built by setting keys[j] = values[j] for j = 1..n in turn.
RECURSIVE Assign(_, _, _)
Assign(keys, values, n) ==
    IF n = 0 THEN <<>>
    ELSE ObjSet(Assign(keys, values, n - 1), keys[n], values[n])

\* ------------------------------------------------------------ MIME types

\* "application/vnd.ms-excel"
MimeXls ==
    <<"a", "p", "p", "l", "i", "c", "a", "t", "i", "o", "n", "/", "v", "n",
    "d", ".", "m", "s", "-", "e", "x", "c", "e", "l">>

\* "application/vnd.openxmlformats-officedocument.spreadsheetml.sheet"
MimeXlsx ==
    <<"a", "p", "p", "l", "i", "c", "a", "t", "i", "o", "n", "/", "v", "n",
    "d", ".", "o", "p", "e", "n", "x", "m", "l", "f", "o", "r", "m", "a",
    "t", "s", "-", "o", "f", "f", "i", "c", "e", "d", "o", "c", "u", "m",
    "e", "n", "t", ".", "s", "p", "r", "e", "a", "d", "s", "h", "e", "e",
    "t", "m", "l", ".", "s", "h", "e", "e", "t">>

\* "application/vnd.ms-excel.sheet.macroEnabled.12"
MimeXlsm ==
    <<"a", "p", "p", "l", "i", "c", "a", "t", "i", "o", "n", "/", "v", "n",
    "d", ".", "m", "s", "-", "e", "x", "c", "e", "l", ".", "s", "h", "e",
    "e", "t", ".", "m", "a", "c", "r", "o", "E", "n", "a", "b", "l", "e",
    "d", ".", "1", "2">>

\* "application/vnd.ms-excel.sheet.binary.macroEnabled.12"
MimeXlsb ==
    <<"a", "p", "p", "l", "i", "c", "a", "t", "i", "o", "n", "/", "v", "n",
    "d", ".", "m", "s", "-", "e", "x", "c", "e", "l", ".", "s", "h", "e",
    "e", "t", ".", "b", "i", "n", "a", "r", "y", ".", "m", "a", "c", "r",
    "o", "E", "n", "a", "b", "l", "e", "d", ".", "1", "2">>

\* "text/csv"
MimeCsv ==
    <<"t", "e", "x", "t", "/", "c", "s", "v">>

\* "text/comma-separated-values"
MimeCommaSeparated ==
    <<"t", "e", "x", "t", "/", "c", "o", "m", "m", "a", "-", "s", "e", "p",
    "a", "r", "a", "t", "e", "d", "-", "v", "a", "l", "u", "e", "s">>

\* "text/tab-separated-values"
MimeTsv ==
    <<"t", "e", "x", "t", "/", "t", "a", "b", "-", "s", "e", "p", "a", "r",
    "a", "t", "e", "d", "-", "v", "a", "l", "u", "e", "s">>

\* "application/pdf"
MimePdf ==
    <<"a", "p", "p", "l", "i", "c", "a", "t", "i", "o", "n", "/", "p", "d",
    "f">>

\* "application/msword"
MimeDoc ==
    <<"a", "p", "p", "l", "i", "c", "a", "t", "i", "o", "n", "/", "m", "s",
    "w", "o", "r", "d">>

\* "application/vnd.openxmlformats-officedocument.wordprocessingml.document"
MimeDocx ==
    <<"a", "p", "p", "l", "i", "c", "a", "t", "i", "o", "n", "/", "v", "n",
    "d", ".", "o", "p", "e", "n", "x", "m", "l", "f", "o", "r", "m", "a",
    "t", "s", "-", "o", "f", "f", "i", "c", "e", "d", "o", "c", "u", "m",
    "e", "n", "t", ".", "w", "o", "r", "d", "p", "r", "o", "c", "e", "s",
    "s", "i", "n", "g", "m", "l", ".", "d", "o", "c", "u", "m", "e", "n",
    "t">>

\* "text/plain"
MimePlain ==
    <<"t", "e", "x", "t", "/", "p", "l", "a", "i", "n">>

\* "application/octet-stream"
MimeOctetStream ==
    <<"a", "p", "p", "l", "i", "c", "a", "t", "i", "o", "n", "/", "o", "c",
    "t", "e", "t", "-", "s", "t", "r", "e", "a", "m">>

\* "image/png"
MimePng ==
    <<"i", "m", "a", "g", "e", "/", "p", "n", "g">>

\* "spreadsheetml"
SubSpreadsheetml ==
    <<"s", "p", "r", "e", "a", "d", "s", "h", "e", "e", "t", "m", "l">>

\* "excel"
SubExcel ==
    <<"e", "x", "c", "e", "l">>

\* "xlsx"
SubXlsx ==
    <<"x", "l", "s", "x">>

\* "xls"
SubXls ==
    <<"x", "l", "s">>

\* "csv"
SubCsv ==
    <<"c", "s", "v">>

\* "pdf"
SubPdf ==
    <<"p", "d", "f">>

\* "docx"
SubDocx ==
    <<"d", "o", "c", "x">>

\* "word"
SubWord ==
    <<"w", "o", "r", "d">>

\* "tsv"
SubTsv ==
    <<"t", "s", "v">>

\* "image/"
SubImage ==
    <<"i", "m", "a", "g", "e", "/">>

\* "Column"
ColumnPrefix ==
    <<"C", "o", "l", "u", "m", "n">>

\* supportedFormats of isSupportedTableFormat, in the order of the array.
supportedFormats ==
    <<MimeXls, MimeXlsx, MimeXlsm, MimeXlsb, MimeCsv, MimeCommaSeparated,
      MimeTsv, MimePdf, MimeDoc, MimeDocx, MimePlain>>

\* supportedFormats.some(format => mimeType.includes(format))
isSupportedTableFormat(m) ==
    \E i \in 1..Len(supportedFormats) : Includes(m, supportedFormats[i])

\* The branch of extractTableData's if / else-if chain that a MIME type takes.
Branch(m) ==
    IF ~isSupportedTableFormat(m) THEN "unsupported"
    ELSE IF \/ Includes(m, SubSpreadsheetml) \/ Includes(m, SubExcel)
            \/ Includes(m, SubXlsx) \/ Includes(m, SubXls) THEN "excel"
    ELSE IF Includes(m, SubCsv) THEN "csv"
    ELSE IF Includes(m, SubPdf) THEN "pdf"
    ELSE IF Includes(m, SubDocx) \/ Includes(m, SubWord) THEN "word"
    ELSE IF Includes(m, MimePlain) \/ Includes(m, SubTsv) THEN "text"
    ELSE "unsupported"

\* ------------------------------------------------------- line normalizer

\* Mutant: the blank lines are kept.
SplitLinesKeepBlank(t) == SplitChar(t, NL)

\* text.split('\n').filter(line => line.trim() !== '')
SplitLines(t) == FilterNonBlank(SplitChar(t, NL))

\* ---------------------------------------------- noisy (PDF) header detector

Min(a, b) == IF a < b THEN a ELSE b
Max(a, b) == IF a > b THEN a ELSE b

HeaderWindow == 5

\* Mutant: the empty header tokens are kept.
HeaderTokensKeepEmpty(line, d) ==
    IF d = "space" THEN MapTrim(SplitRuns(line, 2))
    ELSE IF d = "comma" THEN MapTrim(SplitChar(line, CM))
    ELSE MapTrim(SplitChar(line, TB))

\* The header tokens of a line under one of the three delimiters: split, trim
\* each token, drop the empty ones.
HeaderTokens(line, d) ==
    IF d = "space" THEN FilterNonEmpty(MapTrim(SplitRuns(line, 2)))
    ELSE IF d = "comma" THEN FilterNonEmpty(MapTrim(SplitChar(line, CM)))
    ELSE FilterNonEmpty(MapTrim(SplitChar(line, TB)))

\* The condition under which a line is tried with a delimiter.
HasDelimiter(line, d) ==
    IF d = "space" THEN Includes(line, <<SP, SP>>)
    ELSE IF d = "comma" THEN Includes(line, <<CM>>)
    ELSE Includes(line, <<TB>>)

\* Mutant: a later candidate with an equal count replaces the best one.
TryDelimiterLast(best, i, line, d) ==
    IF HasDelimiter(line, d) /\ Len(HeaderTokens(line, d)) >= best.count
    THEN [line |-> i, delimiter |-> d, count |-> Len(HeaderTokens(line, d))]
    ELSE best

\* One "if (line.includes(..)) { .. if (n > bestHeaderCount) {..} }" block.
TryDelimiter(best, i, line, d) ==
    IF HasDelimiter(line, d) /\ Len(HeaderTokens(line, d)) > best.count
    THEN [line |-> i, delimiter |-> d, count |-> Len(HeaderTokens(line, d))]
    ELSE best

\* The body of the loop over potentialHeaderLines: space, then comma, then tab.
TryLine(best, i, line) ==
    TryDelimiter(TryDelimiter(TryDelimiter(best, i, line, "space"),
                              i, line, "comma"),
                 i, line, "tab")

\* The loop, from index i (0-based, as in the source) to the window's end.
RECURSIVE ScanFrom(_, _, _)
ScanFrom(best, window, i) ==
    IF i >= Len(window) THEN best
    ELSE ScanFrom(TryLine(best, i, window[i + 1]), window, i + 1)

NoHeader == [line |-> 0, delimiter |-> "space", count |-> 0]

\* Mutant: every line of the text is a header candidate.
DetectHeaderAnywhere(ls) == ScanFrom(NoHeader, ls, 0)

DetectHeader(ls) ==
    ScanFrom(NoHeader, SubSeq(ls, 1, Min(HeaderWindow, Len(ls))), 0)

\* ------------------------------------------ noisy delimited-row extractor

\* The values of a data line: the space split drops empty tokens, the comma
\* and tab splits only trim.
DataTokens(line, d) ==
    IF d = "space" THEN FilterNonEmpty(MapTrim(SplitRuns(line, 2)))
    ELSE IF d = "comma" THEN MapTrim(SplitChar(line, CM))
    ELSE MapTrim(SplitChar(line, TB))

\* Mutant: the tolerance reaches two tokens above the header.
ToleratesWide(h, t) == t >= Max(2, h - 1) /\ t <= h + 2

\* values.length >= Math.max(2, headers.length - 1)
\*   && values.length <= headers.length + 1
\* (h - 1 is never below 0 here: the headers are at least 2.)
Tolerates(h, t) == t >= Max(2, h - 1) /\ t <= h + 1

\* Mutant: the values are assigned from the second header on.
NoisyRowShifted(hs, values) ==
    Assign(Tail(hs), values, Min(Len(hs) - 1, Len(values)))

\* Mutant: a header without a token gets an empty cell.
NoisyRowPadded(hs, values) ==
    Assign(hs, Append(values, <<>>), Min(Len(hs), Len(values) + 1))

\* The row of one accepted line.
NoisyRow(hs, values) == Assign(hs, values, Min(Len(hs), Len(values)))

\* The loop over the lines after the header line (i 0-based).
RECURSIVE NoisyRowsFrom(_, _, _, _)
NoisyRowsFrom(ls, i, d, hs) ==
    IF i >= Len(ls) THEN <<>>
    ELSE LET values == DataTokens(ls[i + 1], d)
         IN (IF Tolerates(Len(hs), Len(values))
             THEN << NoisyRow(hs, values) >> ELSE <<>>)
            \o NoisyRowsFrom(ls, i + 1, d, hs)

\* --------------------------------------------- pattern-frequency fallback

\* line.split(/\s+/).length
WordCount(line) == Len(SplitRuns(line, 1))

\* wordCountMap after the first n lines: a Map lists its keys in the order
\* they were first set; here a sequence of <<wordCount, frequency>>.
RECURSIVE WordCountMap(_, _)
WordCountMap(ls, n) ==
    IF n = 0 THEN <<>>
    ELSE LET m == WordCountMap(ls, n - 1)
             w == WordCount(ls[n])
         IN IF \E i \in 1..Len(m) : m[i][1] = w
            THEN [i \in 1..Len(m) |->
                     IF m[i][1] = w THEN <<w, m[i][2] + 1>> ELSE m[i]]
            ELSE Append(m, <<w, 1>>)

\* wordCountMap.forEach(..) over the first n entries: the first entry with a
\* frequency above every earlier one and a word count above 1 is kept.
RECURSIVE MostCommon(_, _)
MostCommon(m, n) ==
    IF n = 0 THEN [wordCount |-> 0, frequency |-> 0]
    ELSE LET b == MostCommon(m, n - 1)
         IN IF m[n][2] > b.frequency /\ m[n][1] > 1
            THEN [wordCount |-> m[n][1], frequency |-> m[n][2]]
            ELSE b

\* Mutant: two lines of one shape are enough.
StrongPatternOfTwo(b) == b.frequency >= 2 /\ b.wordCount >= 2

\* highestFrequency >= 3 && mostCommonWordCount >= 2
StrongPattern(b) == b.frequency >= 3 /\ b.wordCount >= 2

\* String(n) for n >= 0
RECURSIVE ToDigits(_)
ToDigits(n) ==
    LET d == <<"0", "1", "2", "3", "4", "5", "6", "7", "8", "9">>[(n % 10) + 1]
    IN IF n < 10 THEN <<d>> ELSE Append(ToDigits(n \div 10), d)

\* Array.from({length: n}, (_, i) => `Column${i+1}`)
GenericHeaders(n) == [i \in 1..n |-> ColumnPrefix \o ToDigits(i)]

\* The rows of the lines whose word count is n, in line order.
RECURSIVE PatternRowsFrom(_, _, _)
PatternRowsFrom(ls, i, n) ==
    IF i >= Len(ls) THEN <<>>
    ELSE LET words == SplitRuns(ls[i + 1], 1)
         IN (IF Len(words) = n
             THEN << Assign(GenericHeaders(n), words, Len(words)) >> ELSE <<>>)
            \o PatternRowsFrom(ls, i + 1, n)

PatternRows(ls) ==
    LET m == WordCountMap(ls, Len(ls))
        b == MostCommon(m, Len(m))
    IN IF StrongPattern(b) THEN PatternRowsFrom(ls, 0, b.wordCount) ELSE <<>>

\* ------------------------------------------ strict (plain text) extractor

\* Mutant: the comma is looked for before the tab.
StrictDelimiterCommaFirst(firstLine) ==
    IF Includes(firstLine, <<CM>>) THEN "comma"
    ELSE IF Includes(firstLine, <<TB>>) THEN "tab"
    ELSE IF Includes(firstLine, <<SC>>) THEN "semicolon"
    ELSE "whitespace"

\* The delimiter chosen from the first line.
StrictDelimiter(firstLine) ==
    IF Includes(firstLine, <<TB>>) THEN "tab"
    ELSE IF Includes(firstLine, <<CM>>) THEN "comma"
    ELSE IF Includes(firstLine, <<SC>>) THEN "semicolon"
    ELSE "whitespace"

\* typeof delimiter === 'string' ? line.split(delimiter).map(v => v.trim())
\*                               : line.split(delimiter).filter(v => v.trim() !== '')
StrictTokens(line, d) ==
    IF d = "tab" THEN MapTrim(SplitChar(line, TB))
    ELSE IF d = "comma" THEN MapTrim(SplitChar(line, CM))
    ELSE IF d = "semicolon" THEN MapTrim(SplitChar(line, SC))
    ELSE FilterNonBlank(SplitRuns(line, 1))

\* Mutant: a line with more tokens than the header is cut to the header.
MatchesAtLeast(h, t) == t >= h

\* values.length === headers.length
Matches(h, t) == t = h

\* headers.forEach((header, index) => { row[header] = values[index]; })
StrictRow(hs, values) == Assign(hs, values, Len(hs))

RECURSIVE StrictRowsFrom(_, _, _, _)
StrictRowsFrom(ls, i, d, hs) ==
    IF i >= Len(ls) THEN <<>>
    ELSE LET values == StrictTokens(ls[i + 1], d)
         IN (IF Matches(Len(hs), Len(values))
             THEN << StrictRow(hs, values) >> ELSE <<>>)
            \o StrictRowsFrom(ls, i + 1, d, hs)

\* ----------------------------------------------------------------- inputs

\* The longest text, in lines, of the general PDF and plain-text inputs (and
\* of those with a repeated header), and of the inputs without delimiters that
\* exercise the fallback.
MaxLines == 3
MaxPatternLines == 4

\* The most lines a text that fills the header window has after the window.
MaxBeyondWindow == 1

SeqsUpTo(S, n) == UNION {[1..k -> S] : k \in 0..n}

\* Lines of PDF text: the three delimiters, two of them on one line, data
\* lines with fewer and more tokens than a header, empty fields, index-like
\* tokens, a line without delimiter and a blank line.
PdfPool ==
    { <<"a", SP, SP, "b">>,                        \* "a  b"
      <<"c", CM, "d">>,                            \* "c,d"
      <<"g", CM, "h", TB, "i">>,                   \* "g,h\ti"
      <<"a", CM, "b", CM, "c">>,                   \* "a,b,c"
      <<"2", CM, "1", CM, CM, "3">>,               \* "2,1,,3"
      <<"1", CM, CM, CM, CM, "2">>,                \* "1,,,,2"
      <<"p", SP, "q">>,                            \* "p q"
      <<SP>> }                                     \* " "

\* Lines without any of the three delimiters.
PatternPool ==
    { <<"p", SP, "q">>,                            \* "p q"
      <<"a", SP, "b", SP, "c", SP, "d">>,          \* "a b c d"
      <<SP, "r", SP, "s">>,                        \* " r s"
      <<"x">> }                                    \* "x"

\* Lines of a plain text file.
PlainPool ==
    { <<"a", TB, "b", CM, "c">>,                   \* "a\tb,c"
      <<"a", CM, "b", CM, "c">>,                   \* "a,b,c"
      <<"1", CM, "2">>,                            \* "1,2"
      <<"1", CM, "2", CM, "3", CM, "4">>,          \* "1,2,3,4"
      <<"x", CM, CM, "y">>,                        \* "x,,y"
      <<"a", SC, "b">>,                            \* "a;b"
      <<"c", SC, "d", CM, "e">>,                   \* "c;d,e"
      <<"p", SP, "q">>,                            \* "p q"
      <<>> }                                       \* ""

\* Lines of PDF text under a header that repeats a name.
RepeatPool ==
    { <<"a", CM, "b", CM, "a">>,                   \* "a,b,a"
      <<"1", CM, "2">>,                            \* "1,2"
      <<"1", CM, "2", CM, CM, "3">> }              \* "1,2,,3"

\* Lines of PDF text split by tabs, one with an empty field.
TabPool ==
    { <<"e", TB, "f">>,                            \* "e\tf"
      <<"1", TB, TB, "2">> }                       \* "1\t\t2"

\* The lines of the header window of the long texts, and the lines after it.
WindowPool ==
    { <<"p", SP, "q">>,                            \* "p q"
      <<"c", CM, "d">> }                           \* "c,d"

BeyondPool ==
    { <<"a", CM, "b", CM, "c">>,                   \* "a,b,c"
      <<"p", SP, "q">> }                           \* "p q"

\* Texts that fill the header window and go on after it.
WindowTexts ==
    {JoinLines(w \o b) : w \in [1..HeaderWindow -> WindowPool],
                         b \in SeqsUpTo(BeyondPool, MaxBeyondWindow)}

PdfTexts ==
    {JoinLines(ls) : ls \in SeqsUpTo(PdfPool, MaxLines)}
    \cup {JoinLines(ls) : ls \in SeqsUpTo(PatternPool, MaxPatternLines)}
    \cup {JoinLines(ls) : ls \in SeqsUpTo(RepeatPool, MaxLines)}
    \cup {JoinLines(ls) : ls \in SeqsUpTo(TabPool, MaxLines)}
    \cup WindowTexts

PlainTexts == {JoinLines(ls) : ls \in SeqsUpTo(PlainPool, MaxLines)}

TsvTexts == {JoinLines(ls) : ls \in SeqsUpTo({<<"a", TB, "b">>}, 2)}

\* What the spreadsheet and DOCX libraries return: nothing, or rows.
LibraryResults == { <<>>, << << <<<<"k">>, <<"v">>>> >> >> }

MimeTypes ==
    {MimeXls, MimeXlsx, MimeXlsm, MimeXlsb, MimeCsv, MimeCommaSeparated,
     MimeTsv, MimePdf, MimeDoc, MimeDocx, MimePlain, MimeOctetStream, MimePng}

\* The file contents that go with a detected type: text for the text-based
\* types, a library result for the others.
TextsOf(m) ==
    IF m = MimePdf THEN PdfTexts
    ELSE IF m = MimePlain THEN PlainTexts
    ELSE IF m = MimeTsv THEN TsvTexts
    ELSE {<<>>}

LibraryResultsOf(m) ==
    IF m \in {MimeXls, MimeXlsx, MimeXlsm, MimeXlsb, MimeCsv,
              MimeCommaSeparated, MimeDoc, MimeDocx}
    THEN LibraryResults ELSE {<<>>}

\* ------------------------------------------------------------------ state

VARIABLES
    mimeType,    \* POST: the detected MIME type (octet-stream when none)
    text,        \* the uploaded file's text (data.text, content)
    libData,     \* what the spreadsheet or DOCX library returns for the file
    pc,          \* where the request is
    lines,       \* extractTableData: lines
    best,        \* bestHeaderLine, bestDelimiter, bestHeaderCount
    headers,     \* headers of the noisy or the strict extractor
    rows,        \* rows of the noisy or the strict extractor
    delimiter,   \* the strict extractor's delimiter
    tableData,   \* what extractTableData returns
    returned,    \* which return statement of extractTableData returned
    response     \* the response of POST

vars == <<mimeType, text, libData, pc, lines, best, headers, rows, delimiter,
          tableData, returned, response>>

NoResponse == [status |-> 0, kind |-> "pending", tableData |-> <<>>, headers |-> <<>>]

Init ==
    /\ mimeType \in MimeTypes
    /\ text \in TextsOf(mimeType)
    /\ libData \in LibraryResultsOf(mimeType)
    /\ pc = "post"
    /\ lines = <<>>
    /\ best = NoHeader
    /\ headers = <<>>
    /\ rows = <<>>
    /\ delimiter = "none"
    /\ tableData = <<>>
    /\ returned = "none"
    /\ response = NoResponse

\* ---------------------------------------------------------------- actions

ErrorResponse(status, kind) ==
    [status |-> status, kind |-> kind, tableData |-> <<>>, headers |-> <<>>]

\* POST up to the call of extractTableData: an unsupported type is refused.
Post ==
    /\ pc = "post"
    /\ IF ~isSupportedTableFormat(mimeType)
       THEN /\ response' = ErrorResponse(400, "unsupported")
            /\ pc' = "done"
       ELSE IF Includes(SubSeq(mimeType, 1, Len(SubImage)), SubImage)
       THEN /\ response' = ErrorResponse(400, "image")
            /\ pc' = "done"
       ELSE /\ response' = response
            /\ pc' = "extract"
    /\ UNCHANGED <<mimeType, text, libData, lines, best, headers, rows,
                   delimiter, tableData, returned>>

\* POST: reading the form or writing the temporary file throws; the catch of
\* POST answers 500.
PostFault ==
    /\ pc = "post"
    /\ response' = ErrorResponse(500, "failed")
    /\ pc' = "done"
    /\ UNCHANGED <<mimeType, text, libData, lines, best, headers, rows,
                   delimiter, tableData, returned>>

\* extractTableData returns: POST goes on with the result.
Return(data, how) ==
    /\ tableData' = data
    /\ returned' = how
    /\ pc' = "respond"

\* extractTableData, the spreadsheet, CSV and Word branches: the library's rows.
ExtractLibrary ==
    /\ pc = "extract"
    /\ Branch(mimeType) \in {"excel", "csv", "word"}
    /\ Return(libData, "library")
    /\ UNCHANGED <<mimeType, text, libData, lines, best, headers, rows,
                   delimiter, response>>

\* extractTableData, the final else (and the guard at its start).
ExtractUnsupported ==
    /\ pc = "extract"
    /\ Branch(mimeType) = "unsupported"
    /\ Return(<<>>, "unsupported")
    /\ UNCHANGED <<mimeType, text, libData, lines, best, headers, rows,
                   delimiter, response>>

\* extractTableData: reading or parsing the file throws; the catch logs the
\* error and returns [].
ExtractFault ==
    /\ pc = "extract"
    /\ Branch(mimeType) \in {"excel", "csv", "pdf", "word", "text"}
    /\ Return(<<>>, "catch")
    /\ UNCHANGED <<mimeType, text, libData, lines, best, headers, rows,
                   delimiter, response>>

\* The PDF branch up to "if (lines.length > 1)".
ReadPdf ==
    /\ pc = "extract"
    /\ Branch(mimeType) = "pdf"
    /\ lines' = SplitLines(text)
    /\ IF Len(lines') > 1
       THEN /\ pc' = "detect"
            /\ UNCHANGED <<tableData, returned>>
       ELSE Return(<<>>, "no table")
    /\ UNCHANGED <<mimeType, text, libData, best, headers, rows, delimiter,
                   response>>

\* The PDF branch, the loop over potentialHeaderLines.
Detect ==
    /\ pc = "detect"
    /\ best' = DetectHeader(lines)
    /\ pc' = IF best'.count >= 2 THEN "rows" ELSE "pattern"
    /\ UNCHANGED <<mimeType, text, libData, lines, headers, rows, delimiter,
                   tableData, returned, response>>

\* Mutant: no rows under the header ends the extraction with no table.
ExtractRowsNoFallback ==
    /\ pc = "rows"
    /\ headers' = HeaderTokens(lines[best.line + 1], best.delimiter)
    /\ rows' = NoisyRowsFrom(lines, best.line + 1, best.delimiter, headers')
    /\ IF Len(rows') > 0
       THEN Return(rows', "rows")
       ELSE Return(<<>>, "no table")
    /\ UNCHANGED <<mimeType, text, libData, lines, best, delimiter, response>>

\* The PDF branch, "if (bestHeaderCount >= 2) { .. }".
ExtractRows ==
    /\ pc = "rows"
    /\ headers' = HeaderTokens(lines[best.line + 1], best.delimiter)
    /\ rows' = NoisyRowsFrom(lines, best.line + 1, best.delimiter, headers')
    /\ IF Len(rows') > 0
       THEN Return(rows', "rows")
       ELSE /\ pc' = "pattern"
            /\ UNCHANGED <<tableData, returned>>
    /\ UNCHANGED <<mimeType, text, libData, lines, best, delimiter, response>>

\* The PDF branch, approach 2 and the final "return []".
Pattern ==
    /\ pc = "pattern"
    /\ IF Len(PatternRows(lines)) > 0
       THEN Return(PatternRows(lines), "pattern")
       ELSE Return(<<>>, "no table")
    /\ UNCHANGED <<mimeType, text, libData, lines, best, headers, rows,
                   delimiter, response>>

\* The plain text branch.
ExtractText ==
    /\ pc = "extract"
    /\ Branch(mimeType) = "text"
    /\ lines' = SplitLines(text)
    /\ IF Len(lines') > 1
       THEN /\ delimiter' = StrictDelimiter(lines'[1])
            /\ headers' = StrictTokens(lines'[1], delimiter')
            /\ rows' = StrictRowsFrom(lines', 1, delimiter', headers')
            /\ Return(rows', "text")
       ELSE /\ UNCHANGED <<delimiter, headers, rows>>
            /\ Return(<<>>, "no table")
    /\ UNCHANGED <<mimeType, text, libData, best, response>>

\* POST after extractTableData: 400 for no rows, else the table.
Respond ==
    /\ pc = "respond"
    /\ response' =
         IF Len(tableData) = 0
         THEN ErrorResponse(400, "no table data")
         ELSE [status |-> 200, kind |-> "table", tableData |-> tableData,
               headers |-> ObjKeys(tableData[1])]
    /\ pc' = "done"
    /\ UNCHANGED <<mimeType, text, libData, lines, best, headers, rows,
                   delimiter, tableData, returned>>

Next ==
    \/ Post
    \/ PostFault
    \/ ExtractLibrary
    \/ ExtractUnsupported
    \/ ExtractFault
    \/ ReadPdf
    \/ Detect
    \/ ExtractRows
    \/ Pattern
    \/ ExtractText
    \/ Respond

Spec == Init /\ [][Next]_vars

\* ----------------------------------------------------------------- claims

\* The PDF branch has run its header detection.
Detected == pc \in {"rows", "pattern"} \/ returned \in {"rows", "pattern"}
            \/ (returned = "no table" /\ Len(lines) > 1 /\ Branch(mimeType) = "pdf")

Delimiters == {"space", "comma", "tab"}

DelimiterRank(d) == IF d = "space" THEN 1 ELSE IF d = "comma" THEN 2 ELSE 3

\* The header candidates of the window, as <<line index, delimiter>>, and the
\* ones with the highest token count.
Candidates ==
    {c \in (0..(Min(HeaderWindow, Len(lines)) - 1)) \X Delimiters :
        /\ HasDelimiter(lines[c[1] + 1], c[2])
        /\ Len(HeaderTokens(lines[c[1] + 1], c[2])) >= 1}

CandidateCount(c) == Len(HeaderTokens(lines[c[1] + 1], c[2]))

TopCandidates ==
    {c \in Candidates : \A o \in Candidates : CandidateCount(o) <= CandidateCount(c)}

Selected == <<best.line, best.delimiter>>

RowsExtracted ==
    /\ Branch(mimeType) = "pdf"
    /\ pc \in {"pattern", "respond", "done"}
    /\ Len(headers) > 0

\* The indices (1-based) of the lines after the header line, and the token
\* count of a data line.
DataLines == (best.line + 2)..Len(lines)

DataCount(i) == Len(DataTokens(lines[i], best.delimiter))

InTolerance(i) ==
    LET h == Len(headers)
        t == DataCount(i)
    IN /\ t >= (IF h - 1 > 2 THEN h - 1 ELSE 2)
       /\ t <= h + 1

\* The k-th element, in ascending order, of a set of numbers.
Kth(S, k) == CHOOSE i \in S : Cardinality({j \in S : j <= i}) = k

\* C2: the rows of the noisy delimited-row extractor are, in line order, the
\* rows of exactly the lines after the header line whose token count T
\* satisfies max(2, H-1) <= T <= H+1.
C2_Tolerance ==
    RowsExtracted =>
        LET accepted == {i \in DataLines : InTolerance(i)}
        IN /\ Len(rows) = Cardinality(accepted)
           /\ \A k \in 1..Len(rows) :
                 rows[k] = NoisyRow(headers, DataTokens(lines[Kth(accepted, k)],
                                                        best.delimiter))

\* A header of 3 tokens, a line of 5 tokens that gives no row and a line that
\* gives one.
C2_Witness ==
    /\ RowsExtracted
    /\ Len(headers) = 3
    /\ \E i \in DataLines : DataCount(i) = 5
    /\ Len(rows) = 1

\* The pattern-frequency fallback has run.
PatternRan ==
    /\ Branch(mimeType) = "pdf"
    /\ pc \in {"respond", "done"}
    /\ \/ returned = "pattern"
       \/ (returned = "no table" /\ Len(lines) > 1)

\* The number of tokens s.split(/\s+/) gives: one more than the number of
\* white-space runs of s.
WsCount(s) ==
    1 + Cardinality({i \in 1..Len(s) :
                        IsWs(s[i]) /\ (i = 1 \/ ~IsWs(s[i - 1]))})

LinesWithCount(n) == {i \in 1..Len(lines) : WsCount(lines[i]) = n}

\* The word counts of the lines that a table row can have.
RowCounts == {WsCount(lines[i]) : i \in 1..Len(lines)} \ {0, 1}

\* `Column${j}` for j below 10.
ColumnName(j) ==
    <<"C", "o", "l", "u", "m", "n",
      <<"1", "2", "3", "4", "5", "6", "7", "8", "9">>[j]>>

\* C3: the fallback returns rows exactly when some white-space token count
\* N >= 2 is shared by at least 3 lines; N is then a most frequent such count
\* and the rows are, in line order, those of the lines with N tokens, keyed
\* Column1..ColumnN.
C3_Pattern ==
    PatternRan =>
        /\ (Len(tableData) > 0) <=>
              (\E n \in RowCounts : Cardinality(LinesWithCount(n)) >= 3)
        /\ Len(tableData) > 0 =>
              LET n == Len(tableData[1])
                  with == LinesWithCount(n)
              IN /\ n >= 2
                 /\ Cardinality(with) >= 3
                 /\ \A m \in RowCounts :
                       Cardinality(LinesWithCount(m)) <= Cardinality(with)
                 /\ Len(tableData) = Cardinality(with)
                 /\ \A k \in 1..Len(tableData) :
                       /\ ObjKeys(tableData[k]) = [j \in 1..n |-> ColumnName(j)]
                       /\ \A j \in 1..n :
                             tableData[k][j][2] =
                                 SplitRuns(lines[Kth(with, k)], 1)[j]

\* Three lines share word count 2 and give the three rows; a fourth line has
\* word count 4.
C3_Witness ==
    /\ PatternRan
    /\ Cardinality(LinesWithCount(2)) = 3
    /\ Cardinality(LinesWithCount(4)) = 1
    /\ Len(tableData) = 3

\* The strict extractor has run on at least two lines.
StrictRan == returned = "text"

StrictCount(i) == Len(StrictTokens(lines[i], delimiter))

\* C4: the rows of the strict extractor are, in line order, the rows of
\* exactly the lines after the first whose token count equals the header's.
C4_Exact ==
    StrictRan =>
        LET accepted == {i \in 2..Len(lines) : StrictCount(i) = Len(headers)}
        IN /\ Len(tableData) = Cardinality(accepted)
           /\ \A k \in 1..Len(tableData) :
                 tableData[k] =
                     StrictRow(headers, StrictTokens(lines[Kth(accepted, k)],
                                                     delimiter))

\* A header of 3 fields, a line of 2 fields and a line of 4 fields: no row.
C4_Witness ==
    /\ StrictRan
    /\ Len(headers) = 3
    /\ \E i \in 2..Len(lines) : StrictCount(i) = 2
    /\ \E i \in 2..Len(lines) : StrictCount(i) = 4
    /\ tableData = <<>>

Has(s, c) == \E i \in 1..Len(s) : s[i] = c

\* The delimiter the first line asks for, by priority.
FirstLineDelimiter ==
    IF Has(lines[1], TB) THEN "tab"
    ELSE IF Has(lines[1], CM) THEN "comma"
    ELSE IF Has(lines[1], SC) THEN "semicolon"
    ELSE "whitespace"

\* C5: the strict extractor's delimiter is tab, comma, semicolon or white
\* space by that priority on the first line alone, and the header and every
\* later line are split by it, whatever the later lines contain.
C5_Delimiter ==
    StrictRan =>
        /\ delimiter = FirstLineDelimiter
        /\ headers = StrictTokens(lines[1], FirstLineDelimiter)
        /\ Len(tableData) =
              Cardinality({i \in 2..Len(lines) :
                  Len(StrictTokens(lines[i], FirstLineDelimiter)) = Len(headers)})

\* The first line holds a tab and a comma, a later line a comma and no tab:
\* the tab is the delimiter and the later line is one token.
C5_Witness ==
    /\ StrictRan
    /\ Has(lines[1], TB) /\ Has(lines[1], CM)
    /\ delimiter = "tab"
    /\ \E i \in 2..Len(lines) :
          Has(lines[i], CM) /\ ~Has(lines[i], TB) /\ StrictCount(i) = 1

\* extractTableData returned the rows of one of the three text extractions.
Extracted == returned \in {"rows", "pattern", "text"}

\* The header list of the extraction that returned.
ExtractionHeaders ==
    IF returned = "pattern"
    THEN [j \in 1..Len(tableData[1]) |-> ColumnName(j)]
    ELSE headers

\* C6 as claimed: all rows of one extraction have the same ordered key list,
\* the extraction's header list.
C6_SameKeys ==
    Extracted =>
        \A k \in 1..Len(tableData) : ObjKeys(tableData[k]) = ExtractionHeaders

\* Headers that are distinct and none an array-index name: the keys of an
\* object keep the order in which such names were set.
OrdinaryHeaders ==
    /\ \A i, j \in 1..Len(headers) : i # j => headers[i] # headers[j]
    /\ \A i \in 1..Len(headers) : ~IsIndexKey(headers[i])

\* C6 as amended: the rows of a fallback extraction all have the key list
\* Column1..ColumnN; every key of a noisy or strict row is one of the headers,
\* and with ordinary headers the key list of a strict row is the header list
\* and that of a noisy row is the header list or the header list without its
\* last header.
C6_KeysFromHeaders ==
    Extracted =>
        \A k \in 1..Len(tableData) :
            LET keys == ObjKeys(tableData[k])
            IN IF returned = "pattern" THEN keys = ExtractionHeaders
               ELSE /\ \A j \in 1..Len(keys) :
                          \E i \in 1..Len(headers) : keys[j] = headers[i]
                    /\ OrdinaryHeaders =>
                          /\ keys = SubSeq(headers, 1, Len(keys))
                          /\ Len(keys) = Len(headers)
                             \/ (returned = "rows" /\ Len(keys) = Len(headers) - 1)

\* A noisy extraction with ordinary headers returns a row with every header
\* and a row without the last one.
C6_Witness ==
    /\ returned = "rows"
    /\ OrdinaryHeaders
    /\ \E k \in 1..Len(tableData) : Len(tableData[k]) = Len(headers)
    /\ \E k \in 1..Len(tableData) : Len(tableData[k]) = Len(headers) - 1

NoEmptyHeader ==
    /\ \A j \in 1..Len(ExtractionHeaders) : ExtractionHeaders[j] # <<>>
    /\ \A k \in 1..Len(tableData) :
          \A j \in 1..Len(tableData[k]) : tableData[k][j][1] # <<>>

\* C7 as claimed: no extraction uses the empty string as a header, and no
\* returned row has it as a key.
C7_NoEmptyHeader == Extracted => NoEmptyHeader

DelimiterChar ==
    IF delimiter = "tab" THEN TB ELSE IF delimiter = "comma" THEN CM ELSE SC

\* C7 as amended: the noisy extraction, the fallback and the strict
\* extraction with the white-space delimiter use no empty header and return no
\* empty key; the strict extraction with the tab, comma or semicolon keeps
\* every field of the first line as a header, the empty ones too.
C7_NoEmptyHeaderUnlessLiteral ==
    Extracted =>
        IF returned = "text" /\ delimiter # "whitespace"
        THEN /\ Len(headers) =
                  1 + Cardinality({i \in 1..Len(lines[1]) :
                                      lines[1][i] = DelimiterChar})
             /\ \A j \in 1..Len(headers) :
                   headers[j] = Trim(SplitChar(lines[1], DelimiterChar)[j])
        ELSE NoEmptyHeader

\* A noisy extraction returns rows under a header line with an empty field
\* between two commas, which is not a header.
C7_Witness ==
    /\ returned = "rows"
    /\ best.delimiter = "comma"
    /\ Len(SplitChar(lines[best.line + 1], CM)) > Len(headers)

\* C8 as claimed: a fault caught during the extraction is not answered as
\* "no table data".
C8_FaultSurfaced ==
    (pc = "done" /\ returned = "catch") => response.kind # "no table data"

\* The PDF branch has returned without a fault.
PdfReturned ==
    /\ mimeType = MimePdf
    /\ pc \in {"respond", "done"}
    /\ returned \notin {"none", "catch"}

HeaderFound == Len(lines) > 1 /\ \E c \in Candidates : CandidateCount(c) >= 2

\* C9: with a header of at least 2 tokens and at least one row under it, the
\* rows are the result and the fallback is not run; otherwise the result is
\* what the fallback returns for all lines, empty when that is empty.
C9_Order ==
    PdfReturned =>
        IF HeaderFound /\ Len(rows) > 0
        THEN tableData = rows /\ returned = "rows"
        ELSE /\ tableData = PatternRows(lines)
             /\ returned = (IF Len(tableData) > 0 THEN "pattern" ELSE "no table")

\* A header is found, no line under it gives a row, and the fallback returns
\* rows.
C9_Witness ==
    /\ PdfReturned
    /\ HeaderFound
    /\ rows = <<>>
    /\ returned = "pattern"
    /\ Len(tableData) > 0

\* The number of lines of a text, split at line breaks, that hold a character
\* other than white space.
NonBlankLines(t) ==
    Cardinality({s \in 0..Len(t) :
        /\ s = 0 \/ t[s] = NL
        /\ \E j \in (s + 1)..Len(t) :
              ~IsWs(t[j]) /\ \A m \in (s + 1)..j : t[m] # NL})

\* C10: a PDF or plain text of fewer than two non-blank lines gives the empty
\* result, answered as "no table data", and no error.
C10_FewLines ==
    (mimeType \in {MimePdf, MimePlain} /\ NonBlankLines(text) < 2
       /\ returned # "none") =>
        /\ tableData = <<>>
        /\ returned \in {"no table", "catch"}
        /\ pc = "done" => response = ErrorResponse(400, "no table data")

\* A PDF text of one non-blank line among blank lines is answered.
C10_Witness ==
    /\ pc = "done"
    /\ mimeType = MimePdf
    /\ NonBlankLines(text) = 1
    /\ Has(text, NL)
    /\ returned = "no table"

\* The fields of a line under a delimiter, before any trimming, and how many
\* of them hold a character other than white space.
Fields(line, d) ==
    IF d = "space" THEN SplitRuns(line, 2)
    ELSE IF d = "comma" THEN SplitChar(line, CM)
    ELSE SplitChar(line, TB)

NonBlankFields(line, d) ==
    Cardinality({j \in 1..Len(Fields(line, d)) : NonBlank(Fields(line, d)[j])})

\* C11 as claimed: the token count of a data line split by space run or by
\* comma leaves out the tokens that trim to empty, that of a data line split
\* by tab counts them; with the comma 'a,,b' counts 2 tokens.
C11_EmptyDropped ==
    RowsExtracted =>
        \A i \in DataLines :
            DataCount(i) =
                IF best.delimiter = "tab"
                THEN Len(Fields(lines[i], "tab"))
                ELSE NonBlankFields(lines[i], best.delimiter)

\* C12: the selected header line is one of the first min(5, lineCount) lines;
\* a header is reported, and used for the rows, only when the selected
\* candidate has at least 2 tokens, and none is reported when no line of
\* those first lines has 2 tokens under a delimiter, whatever the later lines
\* hold.
C12_Window ==
    Detected =>
        /\ best.line < 5
        /\ best.line < Len(lines)
        /\ (pc = "rows" \/ Len(headers) > 0) =>
              /\ best.count >= 2
              /\ best.count =
                    Len(HeaderTokens(lines[best.line + 1], best.delimiter))
        /\ Len(headers) > 0 =>
              headers = HeaderTokens(lines[best.line + 1], best.delimiter)
        /\ (\A i \in 1..Len(lines) : \A d \in Delimiters :
               (i <= 5 /\ HasDelimiter(lines[i], d))
                   => Len(HeaderTokens(lines[i], d)) < 2)
              => (pc # "rows" /\ headers = <<>> /\ returned # "rows")

\* A text of more than 5 lines whose line at index 5 has more tokens than
\* every line of the window: the header is the 2-token line of the window.
C12_Witness ==
    /\ Detected
    /\ Len(lines) > 5
    /\ Len(headers) = 2
    /\ Len(HeaderTokens(lines[6], "comma")) = 3
    /\ returned = "rows"

\* The lines that give the rows of the noisy extractor, in order, and the
\* cell of a row under a header name.
AcceptedLines == {i \in DataLines : InTolerance(i)}

RowValues(k) == DataTokens(lines[Kth(AcceptedLines, k)], best.delimiter)

CellOf(row, name) == row[CHOOSE i \in 1..Len(row) : row[i][1] = name][2]

\* Header j of the first n headers has token j in the row, the later headers
\* have no cell, and the row has n cells.
Positional(row, values, n) ==
    /\ \A j \in 1..n :
          ObjHas(row, headers[j]) /\ CellOf(row, headers[j]) = values[j]
    /\ \A j \in (n + 1)..Len(headers) : ~ObjHas(row, headers[j])
    /\ Len(row) = n

\* C13 as claimed: the row of an accepted line with T tokens under H headers
\* has token j under header j for exactly the first min(H, T) positions: no
\* cell for the last header when T = H-1, no cell for the last token when
\* T = H+1.
C13_Positional ==
    RowsExtracted =>
        \A k \in 1..Len(rows) :
            Positional(rows[k], RowValues(k),
                       Min(Len(headers), Len(RowValues(k))))

DistinctHeaders ==
    \A i, j \in 1..Len(headers) : i # j => headers[i] # headers[j]

\* C13 as amended: so it is when the header names are distinct; a name that
\* several of the first min(H, T) headers share has one cell, with the token
\* of the last of them.
C13_PositionalDistinct ==
    RowsExtracted =>
        \A k \in 1..Len(rows) :
            LET values == RowValues(k)
                n == Min(Len(headers), Len(values))
            IN /\ DistinctHeaders => Positional(rows[k], values, n)
               /\ \A j \in 1..n :
                     /\ ObjHas(rows[k], headers[j])
                     /\ (\A l \in (j + 1)..n : headers[l] # headers[j])
                           => CellOf(rows[k], headers[j]) = values[j]
               /\ \A c \in 1..Len(rows[k]) :
                     \E j \in 1..n : rows[k][c][1] = headers[j]

\* Under 3 distinct headers, a row of a line of 2 tokens and a row of a line
\* of 4 tokens.
C13_Witness ==
    /\ RowsExtracted
    /\ DistinctHeaders
    /\ Len(headers) = 3
    /\ \E k \in 1..Len(rows) : Len(RowValues(k)) = 2 /\ Len(rows[k]) = 2
    /\ \E k \in 1..Len(rows) : Len(RowValues(k)) = 4 /\ Len(rows[k]) = 3

\* C14 as claimed: the headers of a response with a table are the header
\* list of the extraction, complete and in header order, also when the first
\* row has fewer tokens than the header.
C14_ResponseHeaders ==
    (pc = "done" /\ response.status = 200 /\ Extracted) =>
        response.headers = ExtractionHeaders

\* C15 as claimed: a type that isSupportedTableFormat accepts never ends in
\* the 'unsupported file type' branch, and text/tab-separated-values is read
\* by the strict extractor as text/plain is.
C15_Routed ==
    (/\ isSupportedTableFormat(mimeType)
     /\ pc \in {"respond", "done"}
     /\ returned \notin {"none", "catch"}) =>
        /\ returned # "unsupported"
        /\ mimeType = MimeTsv => returned \in {"text", "no table"}

====
